---- MODULE Spec2Model ----
(***************************************************************************)
(* full-rss (src/main.ts): a feed proxy that replaces the body of each     *)
(* feed entry by the full article, cached in Deno KV for 60 seconds.       *)
(*                                                                         *)
(* The model covers fetchContent (cache lookup, network GET, conversion,   *)
(* gzip, cache write, gunzip, post-processing) at the granularity of its   *)
(* await points, and processFeed (the bounded loop over the entries), for  *)
(* several requests served concurrently by one event loop.                 *)
(***************************************************************************)
EXTENDS Integers, Sequences, FiniteSets, TLC

(***************************************************************************)
(* Bounds of the model.                                                    *)
(***************************************************************************)
MaxTicks == 1           \* clock advances in one behaviour
MaxFaults == 1          \* injected I/O failures in one behaviour
MaxEntries == 12        \* longest feed of SpecFeed

(***************************************************************************)
(* Optional values (undefined / null of the source).                       *)
(***************************************************************************)
None == <<>>
Some(x) == <<x>>
IsNone(o) == o = <<>>
The(o) == o[1]

(***************************************************************************)
(* Strings are sequences of UTF-16 code units, as in JavaScript.           *)
(* Pseudo code units above 65535 stand for whole markup elements.          *)
(***************************************************************************)
SCRIPT == 70001         \* a <script> element of the article
NAV == 70002            \* a <nav> element of the article
H1_OPEN == 70011
H1_CLOSE == 70012
P_OPEN == 70013
P_CLOSE == 70014

IsHigh(c) == c >= 55296 /\ c <= 56319
IsLow(c) == c >= 56320 /\ c <= 57343

RECURSIVE SelectNot(_, _)
SelectNot(s, drop) ==
    IF s = <<>> THEN <<>>
    ELSE IF Head(s) \in drop THEN SelectNot(Tail(s), drop)
         ELSE <<Head(s)>> \o SelectNot(Tail(s), drop)

(***************************************************************************)
(* The world outside: the feed URL, article URLs and the pages their        *)
(* servers return.                                                         *)
(***************************************************************************)
U1 == "https://a.test/1"
U2 == "https://a.test/2"
FEED == "https://a.test/feed.xml"
BAD == "not a url"
ArticleUrls == {U1, U2}
ParseableUrls == ArticleUrls \cup {FEED}
Versions == {1, 2}

\* a validation that accepts every string
CanParseAnything(url) == TRUE

\* URL.canParse
CanParse(url) == url \in ParseableUrls

\* The text of the response to a GET of url, in one of the versions its
\* server may publish: a title and the nodes of the body.
Page(url, v) ==
    IF url = U1
    THEN IF v = 1 THEN [title |-> <<84>>, body |-> <<97, SCRIPT, 98>>]
                  ELSE [title |-> <<84>>, body |-> <<233, 55357, 56832>>]
    ELSE IF v = 1 THEN [title |-> <<>>, body |-> <<>>]
                  ELSE [title |-> <<85, 8364>>, body |-> <<NAV, 99>>]

(***************************************************************************)
(* covertToMarkdown: the title and the body without the filtered elements. *)
(***************************************************************************)
RemovedElements == {SCRIPT, NAV}

covertToMarkdown(html) ==
    <<35, 32>> \o html.title \o <<10, 10>> \o SelectNot(html.body, RemovedElements)

(***************************************************************************)
(* TextEncoder.encode: UTF-16 code units to UTF-8 bytes. A surrogate that  *)
(* is not part of a pair is replaced by U+FFFD.                            *)
(***************************************************************************)
EncodeUnit(c) ==
    IF c < 128 THEN <<c>>
    ELSE IF c < 2048 THEN <<192 + (c \div 64), 128 + (c % 64)>>
    ELSE <<224 + (c \div 4096), 128 + ((c \div 64) % 64), 128 + (c % 64)>>

EncodePair(hi, lo) ==
    LET cp == 65536 + (hi - 55296) * 1024 + (lo - 56320)
    IN  <<240 + (cp \div 262144), 128 + ((cp \div 4096) % 64),
          128 + ((cp \div 64) % 64), 128 + (cp % 64)>>

RECURSIVE TextEncode(_)
TextEncode(s) ==
    IF s = <<>> THEN <<>>
    ELSE IF IsHigh(s[1]) /\ Len(s) >= 2 /\ IsLow(s[2])
         THEN EncodePair(s[1], s[2]) \o TextEncode(Tail(Tail(s)))
    ELSE IF IsHigh(s[1]) \/ IsLow(s[1])
         THEN EncodeUnit(65533) \o TextEncode(Tail(s))
    ELSE EncodeUnit(s[1]) \o TextEncode(Tail(s))

(***************************************************************************)
(* Response.text(): UTF-8 bytes to UTF-16 code units.                      *)
(***************************************************************************)
RECURSIVE TextDecode(_)
TextDecode(b) ==
    IF b = <<>> THEN <<>>
    ELSE IF b[1] < 128 THEN <<b[1]>> \o TextDecode(Tail(b))
    ELSE IF b[1] >= 192 /\ b[1] < 224 /\ Len(b) >= 2
         THEN <<(b[1] - 192) * 64 + (b[2] - 128)>> \o TextDecode(SubSeq(b, 3, Len(b)))
    ELSE IF b[1] >= 224 /\ b[1] < 240 /\ Len(b) >= 3
         THEN <<(b[1] - 224) * 4096 + (b[2] - 128) * 64 + (b[3] - 128)>>
              \o TextDecode(SubSeq(b, 4, Len(b)))
    ELSE IF b[1] >= 240 /\ Len(b) >= 4
         THEN LET cp == (b[1] - 240) * 262144 + (b[2] - 128) * 4096
                        + (b[3] - 128) * 64 + (b[4] - 128)
              IN  <<55296 + ((cp - 65536) \div 1024), 56320 + ((cp - 65536) % 1024)>>
                  \o TextDecode(SubSeq(b, 5, Len(b)))
    ELSE <<65533>> \o TextDecode(Tail(b))

(***************************************************************************)
(* CompressionStream("gzip"): the stream delivers the member in chunks, a  *)
(* header, the data and a trailer with a checksum and the length.          *)
(***************************************************************************)
RECURSIVE SumBytes(_)
SumBytes(b) == IF b = <<>> THEN 0 ELSE b[1] + SumBytes(Tail(b))

GzipHeader == <<31, 139, 8>>

GzipChunks(bytes) ==
    <<GzipHeader, bytes, <<SumBytes(bytes) % 256, Len(bytes) % 256>>>>

\* lines 162-171: the chunks read from the stream and their total size
RECURSIVE TotalSize(_)
TotalSize(chunks) ==
    IF chunks = <<>> THEN 0 ELSE Len(chunks[1]) + TotalSize(Tail(chunks))

\* Uint8Array.set(array, offset)
SetAt(buf, array, offset) ==
    [i \in 1..Len(buf) |->
        IF i > offset /\ i <= offset + Len(array) THEN array[i - offset] ELSE buf[i]]

\* the copy with the offset never advanced: every chunk lands at 0
RECURSIVE CopyChunksNoOffset(_, _, _)
CopyChunksNoOffset(buf, chunks, offset) ==
    IF chunks = <<>> THEN buf
    ELSE CopyChunksNoOffset(SetAt(buf, chunks[1], 0), Tail(chunks), offset)

\* lines 175-181: the chunks copied one after the other into one array
RECURSIVE CopyChunks(_, _, _)
CopyChunks(buf, chunks, offset) ==
    IF chunks = <<>> THEN buf
    ELSE CopyChunks(SetAt(buf, chunks[1], offset), Tail(chunks),
                    offset + Len(chunks[1]))

Concatenate(chunks) ==
    CopyChunks([i \in 1..TotalSize(chunks) |-> 0], chunks, 0)

\* lines 141-183: the markdown as the bytes stored in the cache
Compress(markDown) == Concatenate(GzipChunks(TextEncode(markDown)))

(***************************************************************************)
(* DecompressionStream("gzip"): fails on bytes that are no gzip member.    *)
(***************************************************************************)
GzipValid(b) ==
    /\ Len(b) >= Len(GzipHeader) + 2
    /\ SubSeq(b, 1, Len(GzipHeader)) = GzipHeader
    /\ LET data == SubSeq(b, Len(GzipHeader) + 1, Len(b) - 2)
       IN  /\ b[Len(b) - 1] = SumBytes(data) % 256
           /\ b[Len(b)] = Len(data) % 256

Gunzip(b) == SubSeq(b, Len(GzipHeader) + 1, Len(b) - 2)

\* lines 191-198
Decompress(content) == TextDecode(Gunzip(content))

(***************************************************************************)
(* marked.parse and sanitizeHtml (line 200): the heading line becomes an   *)
(* h1 element and the rest a paragraph; disallowed elements are dropped.   *)
(***************************************************************************)
RECURSIVE UpTo(_, _)
UpTo(s, c) ==
    IF s = <<>> \/ s[1] = c THEN <<>> ELSE <<s[1]>> \o UpTo(Tail(s), c)

MarkedParse(md) ==
    LET line == UpTo(md, 10)
        rest == SubSeq(md, Len(line) + 3, Len(md))
        head == IF Len(line) >= 2 /\ SubSeq(line, 1, 2) = <<35, 32>>
                THEN <<H1_OPEN>> \o SubSeq(line, 3, Len(line)) \o <<H1_CLOSE>>
                ELSE <<P_OPEN>> \o line \o <<P_CLOSE>>
    IN  head \o (IF rest = <<>> THEN <<>> ELSE <<P_OPEN>> \o rest \o <<P_CLOSE>>)

sanitizeHtml(html) == SelectNot(html, {SCRIPT})

PostProcess(newContent) == sanitizeHtml(MarkedParse(newContent))

\* a key that leaves out the path of the URL: the URLs of one host share it
UrlHashOfHost(url) == <<"sha256", U1>>

\* crypto.createHash("sha256").update(url).digest("hex"), taken to be free
\* of collisions
UrlHash(url) == <<"sha256", url>>

(***************************************************************************)
(* Program constants.                                                      *)
(***************************************************************************)
\* the bound compared with > in place of >=
MaxArticlesOffByOne == 10 + 1
\* expireIn given in seconds, the factor 1000 forgotten
ExpireInUnscaled == 60 * 1
\* expireIn of two minutes
ExpireInDouble == 2 * 60 * 1000

MAX_ARTICLES == 10              \* processFeed, line 207
EXPIRE_IN == 60 * 1000          \* db.set expireIn, line 186 (milliseconds)

(***************************************************************************)
(* Feeds. An entry has its metadata (id), its links (null, or a list of    *)
(* links whose href may be missing) and its content (null, or an object    *)
(* whose value may be missing).                                            *)
(***************************************************************************)
Reqs == {1, 2}
Keys == {UrlHash(u) : u \in ArticleUrls}
TickSteps == {EXPIRE_IN - 1, EXPIRE_IN}

OldBody == <<111>>
NoContent == None
OldContent == Some([type |-> Some("text"), value |-> Some(OldBody)])
EmptyContent == Some([type |-> None, value |-> None])

Linked(u, c) == [links |-> Some(<<[href |-> Some(u)]>>), content |-> c]
NullLinks(c) == [links |-> None, content |-> c]
EmptyLinks(c) == [links |-> Some(<<>>), content |-> c]
NoHref(c) == [links |-> Some(<<[href |-> None]>>), content |-> c]

WithIds(es) == [i \in 1..Len(es) |-> [id |-> i, links |-> es[i].links, content |-> es[i].content]]

\* The feeds of concurrent requests: short, so that every interleaving of
\* two requests is explored.
ShortFeeds ==
    { WithIds(<<Linked(U1, NoContent)>>),
      WithIds(<<Linked(U1, NoContent), Linked(U1, OldContent)>>),
      WithIds(<<Linked(BAD, NoContent), Linked(U2, OldContent)>>) }

\* The feeds of one request alone: the first n entries of a repeated pattern.
Patterns ==
    { <<Linked(U1, OldContent), Linked(U2, NoContent)>>,
      <<NullLinks(NoContent), Linked(U1, NoContent), Linked(U2, OldContent),
        Linked(U1, NoContent), Linked(U1, OldContent), Linked(U2, NoContent)>>,
      <<Linked(U1, NoContent), EmptyLinks(OldContent), NoHref(NoContent),
        Linked(BAD, NoContent), Linked(BAD, OldContent)>>,
      <<EmptyLinks(NoContent), Linked(U2, NoContent), Linked(U2, NoContent),
        Linked(U2, NoContent), Linked(U2, NoContent), Linked(U2, NoContent),
        Linked(U2, NoContent), Linked(U2, NoContent), Linked(U2, NoContent),
        Linked(U2, NoContent), Linked(U2, NoContent), Linked(U2, NoContent)>> }

\* The requests the server receives: the method, and the url parameter of
\* the query (absent, empty, not a URL, or the URL of a feed).
Methods == {"GET", "POST"}
UrlParams == {None, Some(""), Some(BAD), Some(FEED)}
Requests == {[method |-> m, url |-> u] : m \in Methods, u \in UrlParams}

\* The feeds a feed server answers with.
ServedFeeds ==
    { WithIds(<<Linked(U1, NoContent)>>),
      WithIds(<<Linked(BAD, NoContent), Linked(U2, OldContent)>>) }

Repeat(pat, n) == [i \in 1..n |-> pat[((i - 1) % Len(pat)) + 1]]
FeedLengths == {0, 3, MaxEntries}
LongFeeds == { WithIds(Repeat(pat, n)) : pat \in Patterns, n \in FeedLengths }

(***************************************************************************)
(* State.                                                                  *)
(***************************************************************************)
VARIABLES
    time,           \* the clock, in milliseconds
    ticks,          \* clock advances so far
    faults,         \* injected I/O failures so far
    crashed,        \* an unhandled promise rejection ended the process
    kv,             \* Deno KV: key -> None or Some([value, expireAt])
    feed,           \* per request: the entries of the feed being processed
    pc,             \* per request: the await point its handler is at
    pos,            \* per request: the entry the for loop is at
    articleCount,   \* per request: processFeed's counter
    req,            \* per request: the method and the url parameter
    feedResponse,   \* per request: the response of the fetch of the feed
    reply,          \* per request: the Response the handler returned
    response,       \* per request: newFeed, the response of fetch(url)
    content,        \* per request: fetchContent's content
    calls,          \* history: per request, its fetchContent calls
    putLog,         \* history: per key, the cache writes in order
    feed0,          \* history: per request, the feed as parsed
    feedGets        \* history: per request, the fetches of the feed

vars == <<time, ticks, faults, crashed, kv, feed, pc, pos, articleCount,
          req, feedResponse, reply, response, content, calls, putLog, feed0,
          feedGets>>

\* what processFeed and fetchContent leave alone: the handler's own state
handler == <<req, feedResponse, reply, feedGets>>

\* the answer to fetch(url) of the feed: its ok flag, and its body, which
\* parseFeed can read (the entries it yields) or not
FeedDocument(isOk, parses, entries) ==
    [ok |-> isOk, wellFormed |-> parses, entries |-> entries]

InitStore ==
    /\ time = 0
    /\ ticks = 0
    /\ faults = 0
    /\ crashed = FALSE
    /\ kv = [k \in Keys |-> None]
    /\ pos = [r \in Reqs |-> 1]
    /\ articleCount = [r \in Reqs |-> 0]
    /\ response = [r \in Reqs |-> None]
    /\ content = [r \in Reqs |-> None]
    /\ calls = [r \in Reqs |-> <<>>]
    /\ putLog = [k \in Keys |-> <<>>]
    /\ reply = [r \in Reqs |-> None]

\* Every request is a GET of a feed that was fetched and parsed (line 277):
\* processFeed is about to run.
InitCommon ==
    /\ InitStore
    /\ pc = [r \in Reqs |-> "loop"]
    /\ req = [r \in Reqs |-> [method |-> "GET", url |-> Some(FEED)]]
    /\ feedResponse = [r \in Reqs |-> Some(FeedDocument(TRUE, TRUE, feed[r]))]
    /\ feedGets = [r \in Reqs |-> 1]
    /\ feed0 = feed

\* Concurrent requests, each with a short feed.
Init ==
    /\ feed \in [Reqs -> ShortFeeds]
    /\ InitCommon

\* One request with a long feed; the others have nothing to process.
InitFeed ==
    /\ \E f \in LongFeeds : feed = [r \in Reqs |-> IF r = 1 THEN f ELSE <<>>]
    /\ InitCommon

\* Requests as they arrive: any method, any url parameter.
InitServe ==
    /\ InitStore
    /\ pc = [r \in Reqs |-> "serve"]
    /\ req \in [Reqs -> Requests]
    /\ feedResponse = [r \in Reqs |-> None]
    /\ feedGets = [r \in Reqs |-> 0]
    /\ feed = [r \in Reqs |-> <<>>]
    /\ feed0 = feed

(***************************************************************************)
(* History of the fetchContent calls of a request; the last one is the     *)
(* call in progress.                                                       *)
(***************************************************************************)
NewCall(u, i) ==
    [ url |-> u,            \* the argument
      entry |-> i,          \* the position of the entry it was called for
      status |-> "running", \* running, returned or threw
      error |-> "",         \* what it threw
      lookup |-> "none",    \* none, hit or miss: what db.get answered
      lookupAt |-> -1,      \* when db.get answered
      priorPuts |-> 0,      \* the cache writes of its key before that answer
      kvGets |-> 0,         \* db.get calls
      netGets |-> 0,        \* fetch(url) calls
      getAt |-> -1,         \* when fetch(url) was called
      kvPuts |-> 0,         \* db.set calls that wrote
      putN |-> 0,           \* its write's place in putLog, 0 if none
      markDown |-> None,    \* what covertToMarkdown returned
      result |-> None ]     \* what the call returned

Cur(r) == calls[r][Len(calls[r])]
WithCur(r, rec) == [calls EXCEPT ![r][Len(calls[r])] = rec]

Item(r) == feed[r][pos[r]]
ItemUrl(r) == The(The(Item(r).links)[1].href)

\* db.get(key).value: the value of the entry, or null when the key has no
\* entry or its entry has expired (the store hides an entry from the end of
\* its expireIn on)
KvGetValue(k) ==
    IF ~IsNone(kv[k]) /\ time < The(kv[k]).expireAt
    THEN Some(The(kv[k]).value)
    ELSE None

\* a test that reads a field the answer of db.get does not have
ContentIsNullAlways(c) == TRUE

\* line 133: content == null
ContentIsNull(c) == IsNone(c)

\* lines 230-234: the catch block of processFeed and the statement after it
CaughtWith(r, rec, err) ==
    /\ calls' = WithCur(r, [rec EXCEPT !.status = "threw", !.error = err])
    /\ articleCount' = [articleCount EXCEPT ![r] = @ + 1]
    /\ pos' = [pos EXCEPT ![r] = @ + 1]
    /\ pc' = [pc EXCEPT ![r] = "loop"]
    /\ response' = [response EXCEPT ![r] = None]
    /\ content' = [content EXCEPT ![r] = None]

Caught(r, err) == CaughtWith(r, Cur(r), err)

\* an I/O operation fails: one of the failures the behaviour may inject
Fault ==
    /\ faults < MaxFaults
    /\ faults' = faults + 1

\* a loop that does not await fetchContent: it goes on while the call it
\* made is still in progress
AtLoopHeadNoAwait(r) == pc[r] \in {"loop", "get", "fetch", "store", "unzip"}

\* lines 209 and 229: the loop takes its next turn when processFeed has been
\* called, or when the fetchContent call it awaits has settled
AtLoopHead(r) == pc[r] = "loop"

(***************************************************************************)
(* processFeed, lines 209-229: one turn of the loop up to the first await  *)
(* of fetchContent (line 130), or the return of the feed (line 236).       *)
(***************************************************************************)
ProcessNext(r) ==
    /\ ~crashed
    /\ UNCHANGED handler
    /\ AtLoopHead(r)
    /\ UNCHANGED <<time, ticks, faults, crashed, kv, response, content, putLog, feed0>>
    /\ IF pos[r] > Len(feed[r]) \/ articleCount[r] >= MAX_ARTICLES
       THEN \* the loop ends or breaks: return feed
            /\ pc' = [pc EXCEPT ![r] = "done"]
            /\ UNCHANGED <<feed, pos, articleCount, calls>>
       ELSE IF IsNone(Item(r).links) \/ Len(The(Item(r).links)) = 0
       THEN \* lines 214-216: continue
            /\ pos' = [pos EXCEPT ![r] = @ + 1]
            /\ UNCHANGED <<feed, pc, articleCount, calls>>
       ELSE IF IsNone(The(Item(r).links)[1].href)
       THEN \* lines 220-222: continue
            /\ pos' = [pos EXCEPT ![r] = @ + 1]
            /\ UNCHANGED <<feed, pc, articleCount, calls>>
       ELSE \* lines 224-226, then the call of line 229
            /\ feed' = [feed EXCEPT ![r][pos[r]].content =
                            IF IsNone(@) THEN EmptyContent ELSE @]
            /\ IF ~CanParse(ItemUrl(r))
               THEN \* lines 125-127 throw, lines 230-234 catch
                    /\ calls' = [calls EXCEPT ![r] = Append(@,
                          [NewCall(ItemUrl(r), pos[r]) EXCEPT
                              !.status = "threw", !.error = "InvalidURL"])]
                    /\ articleCount' = [articleCount EXCEPT ![r] = @ + 1]
                    /\ pos' = [pos EXCEPT ![r] = @ + 1]
                    /\ UNCHANGED pc
               ELSE \* line 130: db.get is called
                    /\ calls' = [calls EXCEPT ![r] = Append(@,
                          [NewCall(ItemUrl(r), pos[r]) EXCEPT !.kvGets = 1])]
                    /\ pc' = [pc EXCEPT ![r] = "get"]
                    /\ UNCHANGED <<pos, articleCount>>

\* a lookup that renews the lifetime of the entry it finds
KvGetRefresh(r) ==
    /\ ~crashed
    /\ UNCHANGED handler
    /\ pc[r] = "get"
    /\ UNCHANGED <<time, ticks, crashed, feed, putLog, feed0>>
    /\ LET k == UrlHash(Cur(r).url)
           seen == [Cur(r) EXCEPT !.lookupAt = time, !.priorPuts = Len(putLog[k])]
       IN  \/ /\ Fault
              /\ CaughtWith(r, seen, "KvGet")
              /\ UNCHANGED kv
           \/ /\ ~ContentIsNull(KvGetValue(k))
              /\ calls' = WithCur(r, [seen EXCEPT !.lookup = "hit"])
              /\ content' = [content EXCEPT ![r] = KvGetValue(k)]
              /\ kv' = [kv EXCEPT ![k] = Some([value |-> The(KvGetValue(k)),
                                               expireAt |-> time + EXPIRE_IN])]
              /\ pc' = [pc EXCEPT ![r] = "unzip"]
              /\ UNCHANGED <<faults, pos, articleCount, response>>
           \/ /\ ContentIsNull(KvGetValue(k))
              /\ calls' = WithCur(r, [seen EXCEPT !.lookup = "miss",
                                        !.netGets = @ + 1, !.getAt = time])
              /\ pc' = [pc EXCEPT ![r] = "fetch"]
              /\ UNCHANGED <<kv, faults, pos, articleCount, response, content>>

(***************************************************************************)
(* fetchContent, lines 130-135: db.get answers; on a miss fetch(url) is    *)
(* called.                                                                 *)
(***************************************************************************)
KvGet(r) ==
    /\ ~crashed
    /\ UNCHANGED handler
    /\ pc[r] = "get"
    /\ UNCHANGED <<time, ticks, crashed, kv, feed, putLog, feed0>>
    /\ LET k == UrlHash(Cur(r).url)
           seen == [Cur(r) EXCEPT !.lookupAt = time, !.priorPuts = Len(putLog[k])]
       IN  \/ \* db.get rejects
              /\ Fault
              /\ CaughtWith(r, seen, "KvGet")
           \/ \* lines 131-133: content is the cached value, the decompression starts
              /\ ~ContentIsNull(KvGetValue(k))
              /\ calls' = WithCur(r, [seen EXCEPT !.lookup = "hit"])
              /\ content' = [content EXCEPT ![r] = KvGetValue(k)]
              /\ pc' = [pc EXCEPT ![r] = "unzip"]
              /\ UNCHANGED <<faults, pos, articleCount, response>>
           \/ \* line 135: content is null, fetch(url) is called
              /\ ContentIsNull(KvGetValue(k))
              /\ calls' = WithCur(r, [seen EXCEPT !.lookup = "miss",
                                        !.netGets = @ + 1, !.getAt = time])
              /\ pc' = [pc EXCEPT ![r] = "fetch"]
              /\ UNCHANGED <<faults, pos, articleCount, response, content>>

(***************************************************************************)
(* fetchContent, line 135: fetch(url) answers with the current page of the *)
(* server, or rejects.                                                     *)
(***************************************************************************)
NetFetch(r) ==
    /\ ~crashed
    /\ UNCHANGED handler
    /\ pc[r] = "fetch"
    /\ UNCHANGED <<time, ticks, crashed, kv, feed, putLog, feed0>>
    /\ \/ /\ Fault
          /\ Caught(r, "Fetch")
       \/ /\ \E v \in Versions :
                response' = [response EXCEPT ![r] = Some(Page(Cur(r).url, v))]
          /\ pc' = [pc EXCEPT ![r] = "store"]
          /\ UNCHANGED <<faults, pos, articleCount, content, calls>>

\* a write that leaves an entry still alive in place
KvSetKeepFirst(k, value) ==
    IF ~IsNone(KvGetValue(k)) THEN kv
    ELSE [kv EXCEPT ![k] = Some([value |-> value, expireAt |-> time + EXPIRE_IN])]

\* db.set(key, value, {expireIn}): the entry replaces any other of the key
KvSet(k, value) ==
    [kv EXCEPT ![k] = Some([value |-> value, expireAt |-> time + EXPIRE_IN])]

\* a conversion whose failure is cached: the empty document is written
\* before the error is thrown
StoreContentCachingFailure(r) ==
    /\ ~crashed
    /\ UNCHANGED handler
    /\ pc[r] = "store"
    /\ UNCHANGED <<time, ticks, feed, feed0>>
    /\ LET k == UrlHash(Cur(r).url)
           markDown == covertToMarkdown(The(response[r]))
           compressed == Compress(markDown)
       IN  \/ /\ Fault
              /\ Caught(r, "Text")
              /\ UNCHANGED <<crashed, kv, putLog>>
           \/ /\ Fault
              /\ Caught(r, "Transform")
              /\ kv' = KvSet(k, Compress(<<>>))
              /\ UNCHANGED <<crashed, putLog>>
           \/ /\ kv' = KvSet(k, compressed)
              /\ putLog' = [putLog EXCEPT ![k] = Append(@,
                    [by |-> <<r, Len(calls[r])>>, at |-> time, value |-> compressed])]
              /\ calls' = WithCur(r, [Cur(r) EXCEPT !.markDown = Some(markDown),
                                        !.kvPuts = @ + 1,
                                        !.putN = Len(putLog[k]) + 1])
              /\ content' = [content EXCEPT ![r] = Some(compressed)]
              /\ pc' = [pc EXCEPT ![r] = "unzip"]
              /\ UNCHANGED <<faults, crashed, pos, articleCount, response>>

(***************************************************************************)
(* fetchContent, lines 139-187: the body is read and converted, the        *)
(* markdown compressed and written to the cache. db.set is not awaited:    *)
(* when it rejects, nothing catches the rejection.                         *)
(***************************************************************************)
StoreContent(r) ==
    /\ ~crashed
    /\ UNCHANGED handler
    /\ pc[r] = "store"
    /\ UNCHANGED <<time, ticks, feed, feed0>>
    /\ LET k == UrlHash(Cur(r).url)
           markDown == covertToMarkdown(The(response[r]))
           compressed == Compress(markDown)
       IN  \/ \* newFeed.text() rejects
              /\ Fault
              /\ Caught(r, "Text")
              /\ UNCHANGED <<crashed, kv, putLog>>
           \/ \* covertToMarkdown throws
              /\ Fault
              /\ Caught(r, "Transform")
              /\ UNCHANGED <<crashed, kv, putLog>>
           \/ \* db.set rejects (a value over the size limit, a store failure)
              /\ Fault
              /\ crashed' = TRUE
              /\ calls' = WithCur(r, [Cur(r) EXCEPT !.markDown = Some(markDown),
                                        !.error = "KvSet"])
              /\ content' = [content EXCEPT ![r] = Some(compressed)]
              /\ pc' = [pc EXCEPT ![r] = "unzip"]
              /\ UNCHANGED <<kv, putLog, pos, articleCount, response>>
           \/ \* lines 183-187
              /\ kv' = KvSet(k, compressed)
              /\ putLog' = [putLog EXCEPT ![k] = Append(@,
                    [by |-> <<r, Len(calls[r])>>, at |-> time, value |-> compressed])]
              /\ calls' = WithCur(r, [Cur(r) EXCEPT !.markDown = Some(markDown),
                                        !.kvPuts = @ + 1,
                                        !.putN = Len(putLog[k]) + 1])
              /\ content' = [content EXCEPT ![r] = Some(compressed)]
              /\ pc' = [pc EXCEPT ![r] = "unzip"]
              /\ UNCHANGED <<faults, crashed, pos, articleCount, response>>

\* an assignment of a new content object, which loses the type of the old
ReplaceContent(c, result) == Some([type |-> None, value |-> Some(result)])

\* line 229: item.content.value = <the result>
SetContentValue(c, result) == Some([The(c) EXCEPT !.value = Some(result)])

\* a miss that returns the markdown as it is, the hit alone being rendered
ResultRawOnMiss(r) ==
    IF Cur(r).lookup = "miss"
    THEN Decompress(The(content[r]))
    ELSE PostProcess(Decompress(The(content[r])))

\* lines 191-200: what fetchContent returns, from content on either path
Result(r) == PostProcess(Decompress(The(content[r])))

(***************************************************************************)
(* fetchContent, lines 191-200, and processFeed, lines 229-234: content is *)
(* decompressed and post-processed, the entry's content value is set.      *)
(***************************************************************************)
Unzip(r) ==
    /\ ~crashed
    /\ UNCHANGED handler
    /\ pc[r] = "unzip"
    /\ UNCHANGED <<time, ticks, crashed, kv, putLog, feed0>>
    /\ \/ \* the decompression rejects
          /\ \/ Fault
             \/ /\ ~GzipValid(The(content[r]))
                /\ UNCHANGED faults
          /\ Caught(r, "Gunzip")
          /\ UNCHANGED feed
       \/ /\ GzipValid(The(content[r]))
          /\ LET result == Result(r)
             IN  /\ calls' = WithCur(r, [Cur(r) EXCEPT !.status = "returned",
                                           !.result = Some(result)])
                 /\ feed' = [feed EXCEPT ![r][pos[r]].content =
                                SetContentValue(@, result)]
          /\ articleCount' = [articleCount EXCEPT ![r] = @ + 1]
          /\ pos' = [pos EXCEPT ![r] = @ + 1]
          /\ pc' = [pc EXCEPT ![r] = "loop"]
          /\ response' = [response EXCEPT ![r] = None]
          /\ content' = [content EXCEPT ![r] = None]
          /\ UNCHANGED faults

(***************************************************************************)
(* Time passes.                                                            *)
(***************************************************************************)
Tick ==
    /\ ~crashed
    /\ ticks < MaxTicks
    /\ \E d \in TickSteps : time' = time + d
    /\ ticks' = ticks + 1
    /\ UNCHANGED <<faults, crashed, kv, feed, pc, pos, articleCount, response,
                   content, calls, putLog, feed0>>
    /\ UNCHANGED handler

(***************************************************************************)
(* The handler of Deno.serve, lines 239-281. A Response is its status and  *)
(* what its body is.                                                       *)
(***************************************************************************)
Response(status, body) == Some([status |-> status, body |-> body])

\* a test for null alone, which lets the empty string through
FalsyNullOnly(url) == IsNone(url)

\* line 247: !url, true of null and of the empty string
Falsy(url) ==
    IsNone(url) \/ The(url) = ""

\* lines 240-265: the request is validated, then fetch(url) is called
Handle(r) ==
    /\ ~crashed
    /\ pc[r] = "serve"
    /\ UNCHANGED <<time, ticks, faults, crashed, kv, feed, pos, articleCount,
                   req, feedResponse, response, content, calls, putLog, feed0>>
    /\ IF req[r].method # "GET"
       THEN /\ reply' = [reply EXCEPT ![r] = Response(405, "Method not allowed")]
            /\ pc' = [pc EXCEPT ![r] = "responded"]
            /\ UNCHANGED feedGets
       ELSE IF Falsy(req[r].url)
       THEN /\ reply' = [reply EXCEPT ![r] = Response(200, "index")]
            /\ pc' = [pc EXCEPT ![r] = "responded"]
            /\ UNCHANGED feedGets
       ELSE IF ~CanParse(The(req[r].url))
       THEN /\ reply' = [reply EXCEPT ![r] = Response(400, "index: invalid URL")]
            /\ pc' = [pc EXCEPT ![r] = "responded"]
            /\ UNCHANGED feedGets
       ELSE /\ feedGets' = [feedGets EXCEPT ![r] = @ + 1]
            /\ pc' = [pc EXCEPT ![r] = "feedfetch"]
            /\ UNCHANGED reply

\* line 265: fetch(url) answers, or rejects; nothing in the handler catches
\* the rejection and Deno.serve answers with its error response. Lines
\* 266-273: a response that is not ok.
FeedFetch(r) ==
    /\ ~crashed
    /\ pc[r] = "feedfetch"
    /\ UNCHANGED <<time, ticks, faults, crashed, kv, feed, pos, articleCount,
                   req, response, content, calls, putLog, feed0, feedGets>>
    /\ \/ /\ reply' = [reply EXCEPT ![r] = Response(500, "Internal Server Error")]
          /\ pc' = [pc EXCEPT ![r] = "responded"]
          /\ UNCHANGED feedResponse
       \/ /\ feedResponse' = [feedResponse EXCEPT ![r] =
                                  Some(FeedDocument(FALSE, FALSE, <<>>))]
          /\ reply' = [reply EXCEPT ![r] = Response(500, "index: error fetching")]
          /\ pc' = [pc EXCEPT ![r] = "responded"]
       \/ /\ \E doc \in {FeedDocument(TRUE, FALSE, <<>>)}
                         \cup {FeedDocument(TRUE, TRUE, f) : f \in ServedFeeds} :
                feedResponse' = [feedResponse EXCEPT ![r] = Some(doc)]
          /\ pc' = [pc EXCEPT ![r] = "parse"]
          /\ UNCHANGED reply

\* a handler that takes a body it cannot parse for a feed with no entries
ParseFeedLenient(r) ==
    /\ ~crashed
    /\ pc[r] = "parse"
    /\ UNCHANGED <<time, ticks, faults, crashed, kv, pos, articleCount, req,
                   feedResponse, response, content, calls, putLog, feedGets,
                   reply>>
    /\ feed' = [feed EXCEPT ![r] = The(feedResponse[r]).entries]
    /\ feed0' = [feed0 EXCEPT ![r] = The(feedResponse[r]).entries]
    /\ pc' = [pc EXCEPT ![r] = "loop"]

\* lines 275-278: the body is read and parsed, processFeed is called; the
\* rejection of parseFeed is caught by nothing in the handler
ParseFeed(r) ==
    /\ ~crashed
    /\ pc[r] = "parse"
    /\ UNCHANGED <<time, ticks, faults, crashed, kv, pos, articleCount, req,
                   feedResponse, response, content, calls, putLog, feedGets>>
    /\ IF The(feedResponse[r]).wellFormed
       THEN /\ feed' = [feed EXCEPT ![r] = The(feedResponse[r]).entries]
            /\ feed0' = [feed0 EXCEPT ![r] = The(feedResponse[r]).entries]
            /\ pc' = [pc EXCEPT ![r] = "loop"]
            /\ UNCHANGED reply
       ELSE /\ reply' = [reply EXCEPT ![r] = Response(500, "Internal Server Error")]
            /\ pc' = [pc EXCEPT ![r] = "responded"]
            /\ UNCHANGED <<feed, feed0>>

\* line 280: processFeed returned, the feed is exported
Respond(r) ==
    /\ ~crashed
    /\ pc[r] = "done"
    /\ UNCHANGED <<time, ticks, faults, crashed, kv, feed, pos, articleCount,
                   req, feedResponse, response, content, calls, putLog, feed0,
                   feedGets>>
    /\ reply' = [reply EXCEPT ![r] = Response(200, "feed")]
    /\ pc' = [pc EXCEPT ![r] = "responded"]

Next ==
    \/ \E r \in Reqs : ProcessNext(r)
    \/ \E r \in Reqs : KvGet(r)
    \/ \E r \in Reqs : NetFetch(r)
    \/ \E r \in Reqs : StoreContent(r)
    \/ \E r \in Reqs : Unzip(r)
    \/ Tick

Spec == Init /\ [][Next]_vars

SpecFeed == InitFeed /\ [][Next]_vars

\* The server from the arrival of the requests to their responses.
NextServe ==
    \/ \E r \in Reqs : Handle(r)
    \/ \E r \in Reqs : FeedFetch(r)
    \/ \E r \in Reqs : ParseFeed(r)
    \/ \E r \in Reqs : Respond(r)
    \/ Next

SpecServe == InitServe /\ [][NextServe]_vars

\* The steps of request r that the event loop runs by itself: whatever does
\* not wait for an answer of the network.
Local(r) ==
    \/ Handle(r)
    \/ ParseFeed(r)
    \/ ProcessNext(r)
    \/ KvGet(r)
    \/ StoreContent(r)
    \/ Unzip(r)
    \/ Respond(r)

\* The server with its scheduling: a request that can take a local step
\* takes it. The answers of fetch (FeedFetch, NetFetch) come from the
\* network, which may never give them; neither fetch is given an
\* AbortSignal, so no step of the program ends the wait.
SpecLive == SpecServe /\ \A r \in Reqs : WF_vars(Local(r))

(***************************************************************************)
(* Properties.                                                             *)
(***************************************************************************)
AllCalls == UNION {{<<r, i>> : i \in 1..Len(calls[r])} : r \in Reqs}
Call(c) == calls[c[1]][c[2]]
AllPuts == UNION {{<<k, n>> : n \in 1..Len(putLog[k])} : k \in Keys}
Put(w) == putLog[w[1]][w[2]]
\* the cache writes of the call's key that preceded its lookup
PriorPuts(c) == {<<UrlHash(Call(c).url), n>> : n \in 1..Call(c).priorPuts}
Answered(c) == Call(c).lookup # "none"
Min(a, b) == IF a < b THEN a ELSE b

Eligible(e) ==
    /\ ~IsNone(e.links)
    /\ Len(The(e.links)) > 0
    /\ ~IsNone(The(e.links)[1].href)

\* the positions of the eligible entries of a feed, in feed order
RECURSIVE EligibleFrom(_, _)
EligibleFrom(f, p) ==
    IF p > Len(f) THEN <<>>
    ELSE (IF Eligible(f[p]) THEN <<p>> ELSE <<>>) \o EligibleFrom(f, p + 1)
EligiblePositions(f) == EligibleFrom(f, 1)

\* C1: cache idempotence. When a call of fetchContent(u) has written the
\* cache and another call of fetchContent(u) gets the answer of its cache
\* lookup after that write and less than 60 s after it, the two calls
\* together perform exactly one network GET and one cache write, and the
\* second call takes the cache-hit path.
C1_CacheIdempotence ==
    \A c \in AllCalls : \A w \in PriorPuts(c) :
        Call(c).lookupAt < Put(w).at + 60 * 1000 =>
            /\ Call(c).netGets = 0
            /\ Call(c).kvPuts = 0
            /\ Call(Put(w).by).netGets + Call(c).netGets = 1
            /\ Call(Put(w).by).kvPuts + Call(c).kvPuts = 1
            /\ Answered(c) => Call(c).lookup = "hit"

\* a request called fetchContent(u) twice in a row, the second time one
\* millisecond before the first call's entry expired, and both returned
C1_Witness ==
    \E r \in Reqs :
        /\ Len(calls[r]) >= 2
        /\ calls[r][1].url = calls[r][2].url
        /\ calls[r][1].status = "returned"
        /\ calls[r][1].kvPuts = 1
        /\ calls[r][2].status = "returned"
        /\ calls[r][2].lookup = "hit"
        /\ calls[r][2].priorPuts >= 1
        /\ calls[r][2].lookupAt = putLog[UrlHash(calls[r][1].url)][calls[r][1].putN].at
                                   + 60 * 1000 - 1

\* C2, as claimed: at most one network GET of a URL between the GET of a
\* call that writes the cache and the expiry of the entry it writes.
C2_AtMostOneFetchPerWindow ==
    \A w \in AllPuts : \A c \in AllCalls \ {Put(w).by} :
        (Call(c).url = Call(Put(w).by).url /\ Call(c).netGets > 0) =>
            ~(/\ Call(Put(w).by).getAt <= Call(c).getAt
              /\ Call(c).getAt < Put(w).at + 60 * 1000)

\* C2, amended: a call performs a network GET only if no entry of its URL
\* written less than 60 s before was in the cache at its lookup, and it
\* performs at most one.
C2_FetchOnlyWithoutLiveEntry ==
    \A c \in AllCalls :
        /\ Call(c).netGets <= 1
        /\ Call(c).netGets > 0 =>
              \A w \in PriorPuts(c) : Call(c).lookupAt >= Put(w).at + 60 * 1000

\* two requests performed a GET of the same URL at overlapping times, and a
\* later call found the entry and performed none
C2_Witness ==
    \E a \in AllCalls, b \in AllCalls, c \in AllCalls :
        /\ a[1] # b[1]
        /\ Call(a).url = Call(b).url /\ Call(c).url = Call(a).url
        /\ Call(a).netGets = 1 /\ Call(b).netGets = 1
        /\ Call(a).priorPuts = 0 /\ Call(b).priorPuts = 0
        /\ Call(c).priorPuts >= 1 /\ Call(c).lookup = "hit" /\ Call(c).netGets = 0

\* C3: expiry. A lookup answered 60 s or more after every write of its key
\* is a miss: the call performs the network GET and, when it returns, has
\* written a new entry, as a call whose key was never written does.
C3_Expiry ==
    \A c \in AllCalls :
        (Answered(c) /\ \A w \in PriorPuts(c) :
                            Call(c).lookupAt >= Put(w).at + 60 * 1000) =>
            /\ Call(c).lookup = "miss"
            /\ Call(c).netGets = 1
            /\ Call(c).status = "returned" =>
                  /\ Call(c).kvPuts = 1
                  /\ Call(c).putN > Call(c).priorPuts

\* a lookup exactly 60 s after the write of the entry missed, and the call
\* fetched, wrote a second entry and returned
C3_Witness ==
    \E c \in AllCalls :
        /\ Call(c).priorPuts = 1
        /\ Call(c).lookupAt = Put(<<UrlHash(Call(c).url), 1>>).at + 60 * 1000
        /\ Call(c).lookup = "miss"
        /\ Call(c).status = "returned"
        /\ Call(c).putN = 2

\* C4: bounded fan-out. processFeed calls fetchContent for the first
\* min(10, k) eligible entries in feed order, k being the number of entries
\* with a first link that has an href; calls that fail count.
C4_BoundedFanOut ==
    \A r \in Reqs :
        LET elig == EligiblePositions(feed0[r])
        IN  /\ Len(calls[r]) <= Min(10, Len(elig))
            /\ \A i \in 1..Len(calls[r]) : calls[r][i].entry = elig[i]
            /\ pc[r] = "done" => Len(calls[r]) = Min(10, Len(elig))

\* a feed with a link-less first entry and more than 10 eligible ones was
\* processed to the end with exactly 10 calls, one of which failed
C4_Witness ==
    \E r \in Reqs :
        /\ pc[r] = "done"
        /\ Len(feed0[r]) > 0
        /\ ~Eligible(feed0[r][1])
        /\ Len(EligiblePositions(feed0[r])) > 10
        /\ Len(calls[r]) = 10
        /\ \E i \in 1..10 : calls[r][i].status = "threw"

\* C5, as claimed: the entry of a failed call is as it was before
\* processFeed, and the entry of a call that returned has its result as
\* content value.
C5_PartialFailureIsolation ==
    \A c \in AllCalls :
        /\ Len(feed[c[1]]) = Len(feed0[c[1]])
        /\ Call(c).status = "threw" =>
              feed[c[1]][Call(c).entry] = feed0[c[1]][Call(c).entry]
        /\ Call(c).status = "returned" =>
              The(feed[c[1]][Call(c).entry].content).value = Call(c).result

\* C6, as claimed: no failure of the processing of an article escapes
\* processFeed: the process goes on and the request moves to the next entry.
C6_FailureContained ==
    /\ ~crashed
    /\ \A c \in AllCalls :
          Call(c).status = "threw" => pos[c[1]] > Call(c).entry

\* C7: a call with a string that is no URL throws InvalidURL without any
\* cache get, cache put or network GET.
C7_InvalidInputRejection ==
    \A c \in AllCalls :
        ~(Call(c).url \in ParseableUrls) =>
            /\ Call(c).status = "threw"
            /\ Call(c).error = "InvalidURL"
            /\ Call(c).kvGets = 0
            /\ Call(c).netGets = 0
            /\ Call(c).kvPuts = 0
            /\ Call(c).lookup = "none"

\* fetchContent("not a url") was called and threw
C7_Witness ==
    \E c \in AllCalls : Call(c).url = BAD /\ Call(c).status = "threw"

\* C8: every entry of the cache, and every value ever written to it,
\* decompresses to the string covertToMarkdown returned in the call that
\* wrote it.
C8_RoundTrip ==
    /\ \A w \in AllPuts :
          /\ GzipValid(Put(w).value)
          /\ Decompress(Put(w).value) = The(Call(Put(w).by).markDown)
    /\ \A k \in Keys :
          ~IsNone(kv[k]) =>
              /\ Len(putLog[k]) > 0
              /\ Decompress(The(kv[k]).value)
                    = The(Call(putLog[k][Len(putLog[k])].by).markDown)

\* two requests wrote the same key, one of them a page with a character
\* outside the basic plane
C8_Witness ==
    \E k \in Keys :
        /\ Len(putLog[k]) >= 2
        /\ putLog[k][1].by[1] # putLog[k][2].by[1]
        /\ \E i \in 1..Len(The(Call(putLog[k][2].by).markDown)) :
              IsHigh(The(Call(putLog[k][2].by).markDown)[i])
        /\ ~IsNone(kv[k])

\* C9, as claimed: no entry at position 11 or later is passed to
\* fetchContent or modified.
C9_PositionalBound ==
    \A r \in Reqs :
        /\ \A i \in 1..Len(calls[r]) : calls[r][i].entry <= 10
        /\ \A p \in 1..Len(feed[r]) : p > 10 => feed[r][p] = feed0[r][p]

\* C9, amended: only the first 10 eligible entries are passed to
\* fetchContent or modified, wherever they are in the feed; skipped entries
\* do not count toward the 10.
C9_EligibleBound ==
    \A r \in Reqs :
        LET elig == EligiblePositions(feed0[r])
            first == {elig[i] : i \in 1..Min(10, Len(elig))}
        IN  /\ Len(feed[r]) = Len(feed0[r])
            /\ \A p \in 1..Len(feed[r]) :
                  p \notin first =>
                      /\ feed[r][p] = feed0[r][p]
                      /\ \A i \in 1..Len(calls[r]) : calls[r][i].entry # p

\* the entry at position 12 was fetched and modified, after skipped entries
\* among the first 10
C9_Witness ==
    \E r \in Reqs :
        /\ pc[r] = "done"
        /\ Len(feed[r]) >= 12
        /\ feed[r][12] # feed0[r][12]
        /\ \E i \in 1..Len(calls[r]) :
              calls[r][i].entry = 12 /\ calls[r][i].status = "returned"

\* C10: last write wins. The entry of a key is the whole value of the last
\* write to it, with its expiry 60 s after that write.
C10_LastWriteWins ==
    \A k \in Keys :
        /\ Len(putLog[k]) = 0 => IsNone(kv[k])
        /\ Len(putLog[k]) > 0 =>
              kv[k] = Some([value |-> putLog[k][Len(putLog[k])].value,
                            expireAt |-> putLog[k][Len(putLog[k])].at + 60 * 1000])

\* two requests both missed the same uncached URL, both fetched, wrote
\* different values and returned; the second write came later in time
C10_Witness ==
    \E k \in Keys :
        /\ Len(putLog[k]) = 2
        /\ putLog[k][1].by[1] # putLog[k][2].by[1]
        /\ putLog[k][1].value # putLog[k][2].value
        /\ putLog[k][1].at < putLog[k][2].at
        /\ Call(putLog[k][1].by).priorPuts = 0
        /\ Call(putLog[k][2].by).priorPuts = 0
        /\ Call(putLog[k][1].by).status = "returned"
        /\ Call(putLog[k][2].by).status = "returned"
        /\ The(kv[k]).value = putLog[k][2].value

\* the fetch of the feed of request r failed: it rejected, its response was
\* not ok, or its body could not be parsed
FeedFailed(r) ==
    /\ feedGets[r] > 0
    /\ pc[r] \notin {"feedfetch", "parse"}
    /\ \/ IsNone(feedResponse[r])
       \/ ~The(feedResponse[r]).ok
       \/ ~The(feedResponse[r]).wellFormed
ByRequest(r) == {w \in AllPuts : Put(w).by[1] = r}

\* C11: the failure of the outer feed is fatal. The feed is fetched at most
\* once per request; when that fetch rejects, answers with a response that
\* is not ok, or its body cannot be parsed, the request has ended with a
\* failure response (status 500) and has made no fetchContent call, no
\* article GET and no cache operation.
C11_OuterFeedFailureFatal ==
    \A r \in Reqs :
        /\ feedGets[r] <= 1
        /\ FeedFailed(r) =>
              /\ pc[r] = "responded"
              /\ ~IsNone(reply[r]) /\ The(reply[r]).status = 500
              /\ feedGets[r] = 1
              /\ calls[r] = <<>>
              /\ ByRequest(r) = {}
              /\ feed[r] = <<>>

\* one request's feed could not be parsed and another's was not ok: both
\* ended, while the store was written by nobody
C11_Witness ==
    \E r1, r2 \in Reqs :
        /\ FeedFailed(r1) /\ ~IsNone(feedResponse[r1])
        /\ The(feedResponse[r1]).ok /\ ~The(feedResponse[r1]).wellFormed
        /\ FeedFailed(r2) /\ ~IsNone(feedResponse[r2])
        /\ ~The(feedResponse[r2]).ok
        /\ AllPuts = {}

C12_BoundedBlocking ==
    \A r \in Reqs : <>(pc[r] = "responded" \/ crashed)

\* request r takes a step of a fetchContent call that db.get answered from
\* the cache: the answer itself, or what follows it
HitStep(r) ==
    /\ pc'[r] # pc[r]
    /\ \/ pc[r] = "get" /\ pc'[r] = "unzip"
       \/ pc[r] = "unzip" /\ Cur(r).lookup = "hit"

\* C13: the cache-hit path is read-only. No step of a call that found its
\* URL's entry changes the store (bytes or expiry) or the log of writes, and
\* such a call makes no network GET and no cache write: a hit never extends
\* the lifetime of the entry.
C13_HitPathReadOnly ==
    [][ /\ \A r \in Reqs : HitStep(r) => kv' = kv /\ putLog' = putLog
        /\ \A r \in Reqs : \A i \in 1..Len(calls'[r]) :
              calls'[r][i].lookup = "hit" =>
                  /\ calls'[r][i].netGets = 0
                  /\ calls'[r][i].kvPuts = 0
                  /\ calls'[r][i].kvGets = 1 ]_vars

\* a call found an entry written earlier in time and returned; the entry
\* still expires 60 s after its write
C13_Witness ==
    \E c \in AllCalls :
        /\ Call(c).lookup = "hit"
        /\ Call(c).status = "returned"
        /\ \E n \in 1..Len(putLog[UrlHash(Call(c).url)]) :
              /\ n = Call(c).priorPuts
              /\ putLog[UrlHash(Call(c).url)][n].at < Call(c).lookupAt
              /\ ~IsNone(kv[UrlHash(Call(c).url)])
              /\ The(kv[UrlHash(Call(c).url)]).expireAt =
                    putLog[UrlHash(Call(c).url)][n].at + 60 * 1000

\* C14: miss/hit equivalence. What a call that wrote an entry returned is
\* the decompression of the very bytes it wrote, post-processed, and every
\* call that later found that entry returned the same string.
C14_MissHitEquivalence ==
    \A a \in AllCalls :
        (Call(a).status = "returned" /\ Call(a).kvPuts = 1) =>
            LET w == Put(<<UrlHash(Call(a).url), Call(a).putN>>)
            IN  /\ w.by = a
                /\ Call(a).result = Some(sanitizeHtml(MarkedParse(Decompress(w.value))))
                /\ \A c \in AllCalls :
                      ( /\ Call(c).url = Call(a).url
                        /\ Call(c).lookup = "hit"
                        /\ Call(c).priorPuts = Call(a).putN
                        /\ Call(c).status = "returned" ) =>
                          Call(c).result = Call(a).result

\* a call of one request missed, wrote and returned; a call of the other
\* request found that entry and returned
C14_Witness ==
    \E a, c \in AllCalls :
        /\ a[1] # c[1]
        /\ Call(a).status = "returned" /\ Call(a).kvPuts = 1
        /\ Call(c).url = Call(a).url
        /\ Call(c).lookup = "hit"
        /\ Call(c).priorPuts = Call(a).putN
        /\ Call(c).status = "returned"
        /\ Call(a).result # Some(<<>>)

\* C15: sequential, in-order processing. Within one processFeed run the
\* fetchContent calls are made for the eligible entries in feed order, each
\* has settled before the next is made, and so at most one of them (and at
\* most one article fetch) is in progress.
C15_SequentialInOrder ==
    \A r \in Reqs : \A i \in 1..Len(calls[r]) :
        /\ calls[r][i].entry = EligiblePositions(feed0[r])[i]
        /\ calls[r][i].url = The(The(feed0[r][calls[r][i].entry].links)[1].href)
        /\ i < Len(calls[r]) =>
              /\ calls[r][i].status # "running"
              /\ calls[r][i].entry < calls[r][i + 1].entry
        /\ calls[r][i].status = "running" =>
              /\ i = Len(calls[r])
              /\ pos[r] = calls[r][i].entry
              /\ pc[r] \in {"get", "fetch", "store", "unzip"}

\* the third call of a request waits for its fetch; the two before it have
\* settled, one by returning and one by throwing
C15_Witness ==
    \E r \in Reqs :
        /\ Len(calls[r]) = 3
        /\ calls[r][3].status = "running" /\ pc[r] = "fetch"
        /\ calls[r][3].entry > 3
        /\ \E i, j \in 1..2 :
              calls[r][i].status = "returned" /\ calls[r][j].status = "threw"

\* an entry without its content body: its metadata, its links and the type
\* of its content
ContentType(c) == IF IsNone(c) THEN None ELSE The(c).type
WithoutBody(e) == [id |-> e.id, links |-> e.links, type |-> ContentType(e.content)]
\* the entry at position p of feed f comes after the tenth eligible entry
BeyondBound(f, p) ==
    /\ Len(EligiblePositions(f)) >= 10
    /\ p > EligiblePositions(f)[10]

EarlyErrors == {"InvalidURL", "Fetch", "Text", "Transform"}

\* C17: no cache write on failure. An entry changes only by the write of a
\* call whose GET was made and answered and whose transform succeeded, the
\* new entry holding that call's compressed markdown; no step removes an
\* entry; a call that failed at the validation of its URL, at its GET or at
\* its transform wrote nothing, and the step at which it failed left the
\* store as it was.
C17_NoWriteOnFailure ==
    [][ /\ \A k \in Keys : kv'[k] # kv[k] =>
              /\ ~IsNone(kv'[k])
              /\ \E r \in Reqs :
                    /\ pc[r] = "store" /\ pc'[r] = "unzip"
                    /\ UrlHash(Cur(r).url) = k
                    /\ Cur(r).netGets = 1
                    /\ ~IsNone(response[r])
                    /\ calls'[r][Len(calls'[r])].status = "running"
                    /\ calls'[r][Len(calls'[r])].kvPuts = 1
                    /\ ~IsNone(calls'[r][Len(calls'[r])].markDown)
                    /\ The(kv'[k]).value =
                          Compress(The(calls'[r][Len(calls'[r])].markDown))
        /\ \A r \in Reqs : \A i \in 1..Len(calls'[r]) :
              ( /\ calls'[r][i].status = "threw"
                /\ calls'[r][i].error \in EarlyErrors ) =>
                  /\ calls'[r][i].kvPuts = 0
                  /\ (i > Len(calls[r]) \/ calls[r][i].status = "running") =>
                        kv' = kv /\ putLog' = putLog ]_vars

\* a call missed because the entry of its URL had expired, fetched, and
\* failed at the transform: the expired entry is still the one in the store
C17_Witness ==
    \E c \in AllCalls :
        /\ Call(c).status = "threw"
        /\ Call(c).error = "Transform"
        /\ Call(c).priorPuts = 1
        /\ Len(putLog[UrlHash(Call(c).url)]) = 1
        /\ kv[UrlHash(Call(c).url)] =
              Some([value |-> putLog[UrlHash(Call(c).url)][1].value,
                    expireAt |-> putLog[UrlHash(Call(c).url)][1].at + 60 * 1000])
        /\ The(kv[UrlHash(Call(c).url)]).expireAt <= Call(c).lookupAt

\* what fetchContent makes of the pages a GET of u can be answered with:
\* the markdown it caches, and the string it returns
MarkdownsOf(u) == {covertToMarkdown(Page(u, v)) : v \in Versions}
ResultsOf(u) == {sanitizeHtml(MarkedParse(md)) : md \in MarkdownsOf(u)}

\* C18: no cross-URL content. The entry under the key of URL u holds the
\* compressed transform of a response to a GET of u, and a call
\* fetchContent(u) returns the rendering of such a transform, never that of
\* a page of another URL.
C18_NoCrossUrlContent ==
    /\ \A k \in DOMAIN kv :
          ~IsNone(kv[k]) =>
              \E u \in ArticleUrls :
                  /\ k = <<"sha256", u>>
                  /\ \E md \in MarkdownsOf(u) : The(kv[k]).value = Compress(md)
    /\ \A c \in AllCalls :
          Call(c).status = "returned" =>
              /\ Call(c).result \in {Some(x) : x \in ResultsOf(Call(c).url)}
              /\ \A u \in ArticleUrls \ {Call(c).url} :
                    Call(c).result \notin {Some(x) : x \in ResultsOf(u)}

\* both URLs are cached, a call for one of them returned from the cache
\* and a call for the other returned what it fetched
C18_Witness ==
    \E c1, c2 \in AllCalls :
        /\ Call(c1).url # Call(c2).url
        /\ Call(c1).status = "returned" /\ Call(c1).lookup = "hit"
        /\ Call(c2).status = "returned" /\ Call(c2).lookup = "miss"
        /\ \A u \in ArticleUrls : ~IsNone(kv[<<"sha256", u>>])

====
